---- MODULE Spec2Model ----
(***************************************************************************)
(* A model of check_pre_commit_config_frozen.py: the revision classifier,  *)
(* the frozen-comment grammar, the git resolvers with their cache, the     *)
(* per-entry linter Linter.lint_repo, Linter.run and the loop of main().   *)
(*                                                                         *)
(* Strings are sequences of characters; a character is a one-character     *)
(* string, except "u0663", which stands for the single character U+0663    *)
(* (ARABIC-INDIC DIGIT THREE, a decimal digit that is no ASCII digit).     *)
(* Python's None is the empty tuple None, and a present value x is the     *)
(* one-element tuple Some(x).                                              *)
(***************************************************************************)
EXTENDS Integers, Sequences, FiniteSets, TLC

(* ----------------------------------------------------------------------- *)
(* Strings                                                                  *)
(* ----------------------------------------------------------------------- *)

None == <<>>
Some(x) == <<x>>

Rep(c, n) == [i \in 1..n |-> c]

AsciiDigits == {"0", "1", "2", "3", "4", "5", "6", "7", "8", "9"}

\* Characters for which Python's str.isdecimal holds: what \d matches in a str pattern.
UnicodeDigits == AsciiDigits \cup {"u0663"}

\* The characters str.strip() removes and \S refuses.
Whitespace == {" ", "\t", "\n"}

\* str.lower(), on the characters the model uses.
Lower(c) ==
    CASE c = "A" -> "a"
      [] c = "B" -> "b"
      [] c = "C" -> "c"
      [] c = "D" -> "d"
      [] c = "E" -> "e"
      [] c = "F" -> "f"
      [] c = "G" -> "g"
      [] OTHER -> c

RECURSIVE LStrip(_)
LStrip(s) == IF s # <<>> /\ Head(s) \in Whitespace THEN LStrip(Tail(s)) ELSE s

RECURSIVE RStrip(_)
RStrip(s) ==
    IF s # <<>> /\ s[Len(s)] \in Whitespace THEN RStrip(SubSeq(s, 1, Len(s) - 1)) ELSE s

\* str.strip()
Strip(s) == RStrip(LStrip(s))

StartsWith(s, p) == Len(s) >= Len(p) /\ SubSeq(s, 1, Len(p)) = p

Drop(s, n) == SubSeq(s, n + 1, Len(s))

\* Length of the longest prefix of s made of non-whitespace characters: what a greedy \S+ takes.
RECURSIVE TokenLen(_)
TokenLen(s) == IF s = <<>> \/ Head(s) \in Whitespace THEN 0 ELSE 1 + TokenLen(Tail(s))

(* ----------------------------------------------------------------------- *)
(* Revision classifier                                                      *)
(* ----------------------------------------------------------------------- *)

SHA1_LENGTH == 160

MIN_HASH_LENGTH == 7

\* The characters of the class [\dabcdef].
regex_abbrev_hash == UnicodeDigits \cup {"a", "b", "c", "d", "e", "f"}

\* pattern_abbrev_hash.fullmatch(rev.lower()): one or more characters, all of the class.
is_hash(rev) == Len(rev) >= 1 /\ \A i \in 1..Len(rev) : Lower(rev[i]) \in regex_abbrev_hash

\* ih and MIN_HASH_LENGTH <= len(rev) < SHA1_LENGTH / 4
is_short_hash_of(rev) == is_hash(rev) /\ MIN_HASH_LENGTH <= Len(rev) /\ Len(rev) * 4 < SHA1_LENGTH

\* len(rev) == SHA1_LENGTH / 4: the length alone decides, is_hash is not consulted.
is_full_hash_of(rev) == Len(rev) * 4 = SHA1_LENGTH

(* ----------------------------------------------------------------------- *)
(* Frozen-comment grammar                                                   *)
(* ----------------------------------------------------------------------- *)

FrozenPrefix == <<" ", "f", "r", "o", "z", "e", "n", ":", " ">>

\* regex_frozen_comment = r"#( frozen: (?P<rev>\S+))?(?P<note> .*)?" under fullmatch.
\* The result is None when nothing matches, else Some of the groups rev and note,
\* each None when its group took no part in the match.
process_frozen_comment(comment) ==
    IF comment = <<>> \/ Head(comment) # "#" THEN None
    ELSE LET rest == Tail(comment)
             body == Drop(rest, Len(FrozenPrefix))
             n == TokenLen(body)
             after == Drop(body, n)
         IN  IF \E i \in 1..Len(rest) : rest[i] = "\n" THEN None
             ELSE IF StartsWith(rest, FrozenPrefix) /\ n >= 1 /\ (after = <<>> \/ Head(after) = " ")
                  THEN Some([rev |-> Some(SubSeq(body, 1, n)),
                             note |-> IF after = <<>> THEN None ELSE Some(after)])
             ELSE IF rest = <<>> THEN Some([rev |-> None, note |-> None])
             ELSE IF Head(rest) = " " THEN Some([rev |-> None, note |-> Some(rest)])
             ELSE None

comment_template_no_space(rev, note) == <<"f", "r", "o", "z", "e", "n", ":">> \o rev \o note

\* comment_template = "frozen: {rev}{note}"
comment_template(rev, note) == <<"f", "r", "o", "z", "e", "n", ":", " ">> \o rev \o note

\* CommentedMap.yaml_add_eol_comment: a text that does not start with # is prefixed with "# ".
eol_comment(text) == IF text[1] # "#" THEN <<"#", " ">> \o text ELSE text

(* ----------------------------------------------------------------------- *)
(* Rules and diagnostics                                                    *)
(* ----------------------------------------------------------------------- *)

FORCE_FREEZE == "f"
NO_ABBREV == "a"
FORCE_UNFREEZE == "u"
MISSING_FROZEN_COMMENT == "m"
EXCESS_FROZEN_COMMENT == "e"
CHECK_COMMENTED_TAG == "t"

\* The values of enum Rule.
Rule == {FORCE_FREEZE, NO_ABBREV, FORCE_UNFREEZE, MISSING_FROZEN_COMMENT,
         EXCESS_FROZEN_COMMENT, CHECK_COMMENTED_TAG}

EXCLUSIVE_RULES == {<<FORCE_FREEZE, FORCE_UNFREEZE>>}

\* dataclass Complain; message and column are left out, line is the entry's position.
Complain(file, line, type, fixable) ==
    [file |-> file, line |-> line, type |-> type, fixable |-> fixable, fixed |-> FALSE]

\* Linter.enabled: rule.value in self.rules
enabled(self, type) == type \in self.rules

should_fix_unchecked(self, comp) == enabled(self, comp.type) /\ comp.type \in self.fix

\* Linter.should_fix on a Complain
should_fix(self, comp) == comp.fixable /\ enabled(self, comp.type) /\ comp.type \in self.fix

(* ----------------------------------------------------------------------- *)
(* Resolvers                                                                *)
(* ----------------------------------------------------------------------- *)

\* First shortest element of a sequence of strings: min(seq, key=len, default=None).
RECURSIVE MinByLen(_)
MinByLen(seq) ==
    IF seq = <<>> THEN None
    ELSE LET m == MinByLen(Tail(seq))
         IN  IF m = None \/ Len(Head(seq)) <= Len(m[1]) THEN Some(Head(seq)) ELSE m

HasDot(s) == \E i \in 1..Len(s) : s[i] = "."

InSeq(x, seq) == \E i \in 1..Len(seq) : seq[i] = x

\* Python truthiness of an Optional[str].
Truthy(opt) == opt # None /\ opt[1] # <<>>

\* Linter.select_best_tag, given what get_tags returned.
select_best_tag(tags) ==
    LET dotted == MinByLen(SelectSeq(tags, HasDot))
    IN  IF Truthy(dotted) THEN dotted ELSE MinByLen(tags)

(* ----------------------------------------------------------------------- *)
(* Linter.lint_repo                                                         *)
(*                                                                          *)
(* A repository entry repo_yaml is [repo, rev, comment]: comment is None    *)
(* or Some(value), the value of the comment token that follows rev.         *)
(* self is [rules, fix, file].  tags and hash are what the remote answers   *)
(* for (repo, rev): [ok |-> FALSE] when the git command exits non-zero      *)
(* (cmd_output raises CalledProcessError), else [ok |-> TRUE, val |-> ..].  *)
(*                                                                          *)
(* The result is a frame [yaml, out, raised, short, full, writes, calls]:   *)
(* the entry as left behind, the Complain objects appended to the current   *)
(* list, whether an exception left the function, the two classification     *)
(* flags, the fields assigned (each with the rule whose fix assigned it)    *)
(* and the resolver functions called, in order.                             *)
(* ----------------------------------------------------------------------- *)

\* Linter.complain followed by the later assignments to the returned object:
\* the object is appended only when its rule is enabled.
Emit(self, fr, comp) ==
    IF enabled(self, comp.type) THEN [fr EXCEPT !.out = Append(@, comp)] ELSE fr

Called(fr, fn) == [fr EXCEPT !.calls = Append(@, fn)]

Raised(fr) == [fr EXCEPT !.raised = TRUE]

\* lines 319-325: comment_rev and comment_note
comment_parse(repo_yaml) ==
    IF repo_yaml.comment = None THEN [rev |-> None, note |-> <<>>]
    ELSE LET match == process_frozen_comment(Strip(repo_yaml.comment[1]))
         IN  IF match = None THEN [rev |-> None, note |-> repo_yaml.comment[1]]
             ELSE [rev |-> match[1].rev,
                   note |-> IF match[1].note = None THEN <<>> ELSE match[1].note[1]]

\* lines 328-333: classification and the abbreviated-hash complaint
lint_classify(self, repo_yaml, line) ==
    LET fr == [yaml |-> repo_yaml, out |-> <<>>, raised |-> FALSE,
               short |-> is_short_hash_of(repo_yaml.rev),
               full |-> is_full_hash_of(repo_yaml.rev),
               writes |-> <<>>, calls |-> <<>>]
    IN  IF fr.short THEN Emit(self, fr, Complain(self.file, line, NO_ABBREV, FALSE)) ELSE fr

lint_unfreeze_any_hash(self, fr, line, tags) ==
    IF ~(fr.short \/ fr.full) THEN fr
    ELSE LET comp == Complain(self.file, line, FORCE_UNFREEZE, TRUE)
             tag == select_best_tag(tags.val)
         IN  IF ~should_fix(self, comp) THEN Emit(self, fr, comp)
             ELSE IF ~tags.ok THEN Raised(Called(Emit(self, fr, comp), "get_tags"))
             ELSE IF Truthy(tag)
                  THEN [Called(Emit(self, fr, [comp EXCEPT !.fixed = TRUE]), "get_tags")
                            EXCEPT !.yaml.rev = tag[1], !.short = FALSE, !.full = FALSE,
                                   !.writes = Append(@, [field |-> "rev", rule |-> FORCE_UNFREEZE])]
             ELSE Called(Emit(self, fr, [comp EXCEPT !.fixable = FALSE]), "get_tags")

\* lines 335-352: the frozen-revision complaint and its fix
lint_unfreeze(self, fr, line, tags) ==
    IF ~(fr.short \/ fr.full) THEN fr
    ELSE LET comp == Complain(self.file, line, FORCE_UNFREEZE, fr.full)
             tag == select_best_tag(tags.val)
         IN  IF ~should_fix(self, comp) THEN Emit(self, fr, comp)
             ELSE IF ~tags.ok THEN Raised(Called(Emit(self, fr, comp), "get_tags"))
             ELSE IF Truthy(tag)
                  THEN [Called(Emit(self, fr, [comp EXCEPT !.fixed = TRUE]), "get_tags")
                            EXCEPT !.yaml.rev = tag[1], !.short = FALSE, !.full = FALSE,
                                   !.writes = Append(@, [field |-> "rev", rule |-> FORCE_UNFREEZE])]
             ELSE Called(Emit(self, fr, [comp EXCEPT !.fixable = FALSE]), "get_tags")

\* lines 382-394: the fix shared by the two comment complaints of a frozen revision
lint_comment_fix(self, fr, comp, note, tags) ==
    LET tag == select_best_tag(tags.val)
    IN  IF ~should_fix(self, comp) THEN Emit(self, fr, comp)
        ELSE IF ~tags.ok THEN Raised(Called(Emit(self, fr, comp), "get_tags"))
        ELSE IF Truthy(tag)
             THEN [Called(Emit(self, fr, [comp EXCEPT !.fixed = TRUE]), "get_tags")
                       EXCEPT !.yaml.comment = Some(eol_comment(comment_template(tag[1], note))),
                              !.writes = Append(@, [field |-> "comment", rule |-> comp.type])]
        ELSE Called(Emit(self, fr, [comp EXCEPT !.fixable = FALSE]), "get_tags")

lint_frozen_no_synthesis(self, fr, line, orig, tags) ==
    LET c == comment_parse(orig)
    IN  IF c.rev = None
        THEN Emit(self, fr, Complain(self.file, line, MISSING_FROZEN_COMMENT, fr.full))
        ELSE IF fr.full /\ enabled(self, CHECK_COMMENTED_TAG)
             THEN IF ~tags.ok THEN Raised(Called(fr, "get_tags"))
                  ELSE IF ~InSeq(c.rev[1], tags.val)
                       THEN lint_comment_fix(self, Called(fr, "get_tags"),
                                Complain(self.file, line, CHECK_COMMENTED_TAG, TRUE), c.note, tags)
                  ELSE Called(fr, "get_tags")
        ELSE fr

\* lines 354-394: a revision that is still frozen
lint_frozen(self, fr, line, orig, tags) ==
    LET c == comment_parse(orig)
    IN  IF c.rev = None
        THEN lint_comment_fix(self, fr,
                 Complain(self.file, line, MISSING_FROZEN_COMMENT, fr.full), c.note, tags)
        ELSE IF fr.full /\ enabled(self, CHECK_COMMENTED_TAG)
             THEN IF ~tags.ok THEN Raised(Called(fr, "get_tags"))
                  ELSE IF ~InSeq(c.rev[1], tags.val)
                       THEN lint_comment_fix(self, Called(fr, "get_tags"),
                                Complain(self.file, line, CHECK_COMMENTED_TAG, TRUE), c.note, tags)
                  ELSE Called(fr, "get_tags")
        ELSE fr

lint_excess_unguarded(self, fr, line, orig) ==
    LET c == comment_parse(orig)
        comp == Complain(self.file, line, EXCESS_FROZEN_COMMENT, TRUE)
    IN  IF c.rev = None THEN fr
        ELSE IF ~should_fix(self, comp) THEN Emit(self, fr, comp)
        ELSE [Emit(self, fr, [comp EXCEPT !.fixed = TRUE])
                  EXCEPT !.yaml.comment = IF c.note # <<>> THEN Some(eol_comment(c.note)) ELSE None,
                         !.writes = Append(@, [field |-> "comment", rule |-> EXCESS_FROZEN_COMMENT])]

\* lines 416-434: the excess-comment complaint and its fix
lint_excess(self, fr, line, orig) ==
    LET c == comment_parse(orig)
        comp == Complain(self.file, line, EXCESS_FROZEN_COMMENT, TRUE)
    IN  IF enabled(self, FORCE_FREEZE) \/ c.rev = None THEN fr
        ELSE IF ~should_fix(self, comp) THEN Emit(self, fr, comp)
        ELSE [Emit(self, fr, [comp EXCEPT !.fixed = TRUE])
                  EXCEPT !.yaml.comment = IF c.note # <<>> THEN Some(eol_comment(c.note)) ELSE None,
                         !.writes = Append(@, [field |-> "comment", rule |-> EXCESS_FROZEN_COMMENT])]

freeze_comment_of_commit(rev, hash, note) == eol_comment(comment_template(hash, note))

\* lines 408-410: the annotation the freeze fix writes names the rev as it was written
freeze_comment(rev, hash, note) == eol_comment(comment_template(rev, note))

\* lines 396-434: a revision that is not (or no longer) frozen
lint_unfrozen(self, fr, line, orig, hash) ==
    LET c == comment_parse(orig)
        comp == Complain(self.file, line, FORCE_FREEZE, TRUE)
    IN  IF ~should_fix(self, comp) THEN lint_excess(self, Emit(self, fr, comp), line, orig)
        ELSE IF ~hash.ok THEN Raised(Called(Emit(self, fr, comp), "get_hash_for"))
        ELSE IF hash.val # <<>>
             THEN lint_excess(self,
                      [Called(Emit(self, fr, [comp EXCEPT !.fixed = TRUE]), "get_hash_for")
                           EXCEPT !.yaml.rev = hash.val,
                                  !.yaml.comment = Some(freeze_comment(orig.rev, hash.val, c.note)),
                                  !.writes = @ \o <<[field |-> "rev", rule |-> FORCE_FREEZE],
                                                    [field |-> "comment", rule |-> FORCE_FREEZE]>>],
                      line, orig)
        ELSE lint_excess(self,
                 Called(Emit(self, fr, [comp EXCEPT !.fixable = FALSE]), "get_hash_for"), line, orig)

\* Linter.lint_repo
lint_repo(self, repo_yaml, line, tags, hash) ==
    LET f0 == lint_classify(self, repo_yaml, line)
        f1 == lint_unfreeze(self, f0, line, tags)
    IN  IF f1.raised THEN f1
        ELSE IF f1.short \/ f1.full THEN lint_frozen(self, f1, line, repo_yaml, tags)
        ELSE lint_unfrozen(self, f1, line, repo_yaml, hash)

(* ----------------------------------------------------------------------- *)
(* Inputs                                                                   *)
(* ----------------------------------------------------------------------- *)

\* Bounds of the model
MaxPasses == 2
MaxFiles == 2
MaxEntries == 2

R_main == <<"m", "a", "i", "n">>
R_tag == <<"v", "1", ".", "2", ".", "0">>
R_hex6 == <<"a", "b", "c", "d", "e", "f">>
R_hex7 == <<"a", "b", "c", "d", "e", "f", "1">>
R_upper7 == <<"A", "B", "C", "D", "E", "F", "1">>
R_digits7 == Rep("u0663", MIN_HASH_LENGTH)
R_hex39 == Rep("a", SHA1_LENGTH \div 4 - 1)
R_full == Rep("a", SHA1_LENGTH \div 4)
R_hex41 == Rep("a", SHA1_LENGTH \div 4 + 1)
R_nonhex40 == Rep("g", SHA1_LENGTH \div 4)

\* The revisions of the entries linted: around both length limits, in both letter cases,
\* with and without characters outside the hexadecimal digits.
Revs == {<<>>, R_main, R_hex6, R_upper7, R_digits7, R_hex39, R_full, R_hex41, R_nonhex40}

T_v1 == <<"v", "1">>
T_v100 == <<"v", "1", ".", "0", ".", "0">>

Frozen(rev, note) == <<"#">> \o FrozenPrefix \o rev \o note \o <<"\n">>

N_keep == <<" ", "k", "e", "e", "p">>

\* Values of the comment token after rev, as ruamel.yaml loads them.
Comments == {None,
             Some(Frozen(R_tag, <<>>)),
             Some(Frozen(T_v100, N_keep)),
             Some(<<"#">> \o N_keep \o <<"\n">>),
             Some(<<"#", "x", "\n">>),
             Some(<<"#", "x", "\n", "#", "y", "\n">>)}

Urls == {"https://x/y"}

Entries == [repo : Urls, rev : Revs, comment : Comments]

Failure == [ok |-> FALSE, val |-> <<>>]
Answer(v) == [ok |-> TRUE, val |-> v]

C_commit == Rep("b", SHA1_LENGTH \div 4)

\* What git can answer get_hash_for: a failing command, an empty output, a commit id.
HashAnswers == {Failure, Answer(<<>>), Answer(C_commit)}

\* What git can answer get_tags: a failing command, no tag, the tags of the nearest tagged commit.
TagAnswers == {Failure, Answer(<<>>), Answer(<<R_tag>>), Answer(<<T_v1, T_v100>>), Answer(<<R_hex7>>)}

\* A file's content: text that does not load, or the repos of the document.
Malformed == [ok |-> FALSE, repos |-> <<>>]
Document(repos) == [ok |-> TRUE, repos |-> repos]

(* ----------------------------------------------------------------------- *)
(* State                                                                    *)
(* ----------------------------------------------------------------------- *)

VARIABLES
    entry_point,        \* "main": the command line; "api": a caller that builds a Linter and calls run
    rules,              \* options.rules / Linter.rules
    fix,                \* options.fix / Linter.fix
    opt_print,          \* options.print
    disk,               \* the files named on the command line, by position
    pass,               \* which invocation over the files this is
    pc,                 \* "start", "loop", "in_file", "done", "usage_error", "crashed"
    file_idx,           \* position of main's loop over options.files
    entry_idx,          \* position of run's loop over config_yaml["repos"]
    config_yaml,        \* the loaded document run is linting
    complains_all,      \* Linter._complains
    current_file,       \* Linter._current_file
    current_complains,  \* Linter._current_complains, the list run returns
    tags_cache,         \* the lru_cache of get_tags, least recently used first
    world_tags,         \* what the remote answers get_tags, for the keys asked so far
    world_hash,         \* what the remote answers get_hash_for, for the keys asked so far
    vcs_log,            \* the git queries the process made, in order
    reports,            \* one record per call of run that ended, in order
    last                \* the latest call of lint_repo on the current list: its arguments and its frame

vars == <<entry_point, rules, fix, opt_print, disk, pass, pc, file_idx, entry_idx,
          config_yaml, complains_all, current_file, current_complains, tags_cache,
          world_tags, world_hash, vcs_log, reports, last>>

config == <<entry_point, rules, fix, opt_print>>

self_linter == [rules |-> rules, fix |-> fix, file |-> file_idx]

(* ----------------------------------------------------------------------- *)
(* get_tags and its cache, get_hash_for                                     *)
(* ----------------------------------------------------------------------- *)

\* functools.lru_cache() keeps maxsize=128 results.
LRU_MAXSIZE == 128

Key(repo_yaml) == [repo |-> repo_yaml.repo, rev |-> repo_yaml.rev]

Cached(cache, key) == \E i \in 1..Len(cache) : cache[i].key = key

CachedVal(cache, key) == (CHOOSE e \in {cache[i] : i \in 1..Len(cache)} : e.key = key).val

Without(cache, key) == SelectSeq(cache, LAMBDA e : e.key # key)

\* The cache after a call get_tags(key) that the remote would answer with ans:
\* a hit moves the key to the most recent end, a miss that succeeds stores the
\* result and drops the least recently used one beyond maxsize, an exception stores nothing.
cache_after(cache, key, ans, maxsize) ==
    IF Cached(cache, key) THEN Append(Without(cache, key), [key |-> key, val |-> CachedVal(cache, key)])
    ELSE IF ~ans.ok THEN cache
    ELSE LET c == Append(cache, [key |-> key, val |-> ans])
         IN  IF Len(c) > maxsize THEN Tail(c) ELSE c

get_tags_uncached(cache, key) == <<[fn |-> "get_tags", key |-> key]>>

\* The git queries one call get_tags(key) makes: none on a hit.
get_tags_queries(cache, key) ==
    IF Cached(cache, key) THEN <<>> ELSE <<[fn |-> "get_tags", key |-> key]>>

\* The git queries one call get_hash_for(key) makes: the function has no cache.
get_hash_for_queries(log, key) == <<[fn |-> "get_hash_for", key |-> key]>>

\* The cache and the query log after the resolver calls of one lint_repo, in order.
\* Every call of one lint_repo has the same key, and an exception ends the calls.
RECURSIVE after_calls(_, _, _, _, _)
after_calls(calls, cache, log, key, tags) ==
    IF calls = <<>> THEN [cache |-> cache, log |-> log]
    ELSE IF Head(calls) = "get_tags"
         THEN after_calls(Tail(calls), cache_after(cache, key, tags, LRU_MAXSIZE),
                          log \o get_tags_queries(cache, key), key, tags)
    ELSE after_calls(Tail(calls), cache, log \o get_hash_for_queries(log, key), key, tags)

(* ----------------------------------------------------------------------- *)
(* Loading and dumping a document                                           *)
(* ----------------------------------------------------------------------- *)

\* yaml.dump writes a comment and ends its line: the token read back ends with a newline.
dump_entry(repo_yaml) ==
    IF repo_yaml.comment # None /\ repo_yaml.comment[1][Len(repo_yaml.comment[1])] # "\n"
    THEN [repo_yaml EXCEPT !.comment = Some(@[1] \o <<"\n">>)]
    ELSE repo_yaml

dump(doc) == Document([i \in 1..Len(doc) |-> dump_entry(doc[i])])

load(content) == content.repos

(* ----------------------------------------------------------------------- *)
(* Initial states                                                           *)
(* ----------------------------------------------------------------------- *)

FixSets == {{}, Rule, {FORCE_UNFREEZE, MISSING_FROZEN_COMMENT}}

\* Documents of one entry, over every entry of the model.
OneEntryDocuments == {Document(<<e>>) : e \in Entries}

E_unfrozen == [repo |-> "https://x/y", rev |-> R_main, comment |-> None]
E_frozen == [repo |-> "https://x/y", rev |-> R_full, comment |-> Some(Frozen(T_v100, N_keep))]

\* A file that does not load, and documents of MaxEntries entries.
PoolDocuments ==
    {Malformed,
     Document([i \in 1..MaxEntries |-> E_unfrozen]),
     Document([i \in 1..MaxEntries |-> IF i % 2 = 1 THEN E_unfrozen ELSE E_frozen]),
     Document([i \in 1..MaxEntries |-> IF i % 2 = 1 THEN E_frozen ELSE E_unfrozen])}

PoolRules == {{FORCE_FREEZE}, {FORCE_UNFREEZE, CHECK_COMMENTED_TAG}, {FORCE_FREEZE, FORCE_UNFREEZE}}

InitProcess ==
    /\ pass = 1
    /\ pc = "start"
    /\ file_idx = 1
    /\ entry_idx = 1
    /\ config_yaml = <<>>
    /\ complains_all = <<>>
    /\ current_file = None
    /\ current_complains = <<>>
    /\ tags_cache = <<>>
    /\ world_tags = <<>>
    /\ world_hash = <<>>
    /\ vcs_log = <<>>
    /\ reports = <<>>
    /\ last = None

\* A caller lints one file of one entry, under every rule set.
InitOne ==
    /\ entry_point = "api"
    /\ rules \in SUBSET Rule
    /\ fix \in FixSets
    /\ opt_print = FALSE
    /\ disk \in {<<d>> : d \in OneEntryDocuments}
    /\ InitProcess

\* Up to MaxFiles files of up to MaxEntries entries, under a few rule sets.
InitMany ==
    /\ entry_point \in {"main", "api"}
    /\ rules \in PoolRules
    /\ fix \in {{}, Rule}
    /\ opt_print \in (IF entry_point = "main" THEN BOOLEAN ELSE {FALSE})
    /\ disk \in UNION {[1..k -> PoolDocuments] : k \in 1..MaxFiles}
    /\ InitProcess

Init == InitOne \/ InitMany

(* ----------------------------------------------------------------------- *)
(* Actions                                                                  *)
(* ----------------------------------------------------------------------- *)

\* What a call of run came to: status "ok" with the text and the list it returned and
\* whether the text was kept as the file's content, or the exception that left it.
Report(status, output, complains, written) ==
    [pass |-> pass, file |-> file_idx, status |-> status, input |-> disk[file_idx],
     output |-> output, complains |-> complains, written |-> written]

\* An exception leaves run: main has no handler and the process ends with a
\* traceback; a caller of Linter.run may go on to its next file.
Propagate(exception) ==
    /\ reports' = Append(reports, Report(exception, disk[file_idx], <<>>, FALSE))
    /\ pc' = IF entry_point = "main" THEN "crashed" ELSE "loop"
    /\ file_idx' = IF entry_point = "main" THEN file_idx ELSE file_idx + 1

\* main, lines 520-529: no exclusive group has two of its rules in options.rules
exclusive_rules_ok(rs) == \A g \in EXCLUSIVE_RULES : ~(g[1] \in rs /\ g[2] \in rs)

\* main, lines 516-531 (parser.error exits), or a caller's Linter(rules, fix)
Start ==
    /\ pc = "start"
    /\ pc' = IF entry_point = "main" /\ ~exclusive_rules_ok(rules) THEN "usage_error" ELSE "loop"
    /\ file_idx' = 1
    /\ complains_all' = <<>>
    /\ current_file' = None
    /\ current_complains' = <<>>
    /\ last' = None
    /\ UNCHANGED <<config, disk, pass, entry_idx, config_yaml, tags_cache, world_tags,
                   world_hash, vcs_log, reports>>

\* main, lines 533-536, into Linter.run, lines 437-443, through Linter.file, lines 293-297
RunBegin ==
    /\ pc = "loop"
    /\ file_idx <= Len(disk)
    /\ IF current_file # None
       THEN /\ Propagate("RuntimeError")
            /\ UNCHANGED <<current_file, current_complains, config_yaml, entry_idx, last>>
       ELSE /\ current_file' = Some(file_idx)
            /\ current_complains' = <<>>
            /\ last' = None
            /\ IF ~disk[file_idx].ok
               THEN /\ Propagate("YAMLError")
                    /\ UNCHANGED <<config_yaml, entry_idx>>
               ELSE /\ config_yaml' = load(disk[file_idx])
                    /\ entry_idx' = 1
                    /\ pc' = "in_file"
                    /\ UNCHANGED <<file_idx, reports>>
    /\ UNCHANGED <<config, disk, pass, complains_all, tags_cache, world_tags, world_hash,
                   vcs_log>>

\* The remote's answer for key: the one it gave before, or any one when first asked.
\* A resolver that lint_repo does not call for the entry is given the answer Failure.
Answers(world, key, all) ==
    IF key \in DOMAIN world THEN {world[key]} ELSE all

Learn(world, key, ans) == IF key \in DOMAIN world THEN world ELSE (key :> ans) @@ world

\* Linter.run, lines 445-446: one call of lint_repo
LintRepo ==
    /\ pc = "in_file"
    /\ entry_idx <= Len(config_yaml)
    /\ LET repo_yaml == config_yaml[entry_idx]
           key == Key(repo_yaml)
           asked_tags == InSeq("get_tags", lint_repo(self_linter, repo_yaml, entry_idx, Failure, Failure).calls)
       IN  \E tags \in Answers(world_tags, key, IF asked_tags THEN TagAnswers ELSE {Failure}) :
           \E hash \in Answers(world_hash, key,
                               IF InSeq("get_hash_for", lint_repo(self_linter, repo_yaml, entry_idx, tags, Failure).calls)
                               THEN HashAnswers ELSE {Failure}) :
             LET fr == lint_repo(self_linter, repo_yaml, entry_idx, tags, hash)
                 asked_hash == InSeq("get_hash_for", fr.calls)
                 res == after_calls(fr.calls, tags_cache, vcs_log, key, tags)
             IN  /\ world_tags' = IF asked_tags THEN Learn(world_tags, key, tags) ELSE world_tags
                 /\ world_hash' = IF asked_hash THEN Learn(world_hash, key, hash) ELSE world_hash
                 /\ tags_cache' = res.cache
                 /\ vcs_log' = res.log
                 /\ current_complains' = current_complains \o fr.out
                 /\ last' = Some([self |-> self_linter, before |-> repo_yaml, line |-> entry_idx,
                                  tags |-> tags, hash |-> hash, frame |-> fr])
                 /\ IF fr.raised
                    THEN /\ Propagate("CalledProcessError")
                         /\ UNCHANGED <<config_yaml, entry_idx>>
                    ELSE /\ config_yaml' = [config_yaml EXCEPT ![entry_idx] = fr.yaml]
                         /\ entry_idx' = entry_idx + 1
                         /\ UNCHANGED <<pc, file_idx, reports>>
    /\ UNCHANGED <<config, disk, pass, complains_all, current_file>>

\* Linter.file, lines 299-300, Linter.run, lines 448-450, and main, lines 538-557.
\* A caller of Linter.run keeps the returned text as the file's content.
RunEnd ==
    /\ pc = "in_file"
    /\ entry_idx > Len(config_yaml)
    /\ LET content == dump(config_yaml)
           written == IF entry_point = "main" THEN ~opt_print /\ fix # {} ELSE TRUE
       IN  /\ disk' = IF written THEN [disk EXCEPT ![file_idx] = content] ELSE disk
           /\ reports' = Append(reports, Report("ok", content, current_complains, written))
    /\ complains_all' = complains_all \o current_complains
    /\ current_file' = None
    /\ file_idx' = file_idx + 1
    /\ pc' = "loop"
    /\ UNCHANGED <<config, pass, entry_idx, config_yaml, current_complains, tags_cache,
                   world_tags, world_hash, vcs_log, last>>

\* main returns after its last file
Exit ==
    /\ pc = "loop"
    /\ file_idx > Len(disk)
    /\ pc' = "done"
    /\ UNCHANGED <<config, disk, pass, file_idx, entry_idx, config_yaml, complains_all,
                   current_file, current_complains, tags_cache, world_tags, world_hash,
                   vcs_log, reports, last>>

\* The files are linted again: the command is run again, in a new process with an
\* empty cache, or the caller goes through its files again with the same Linter.
NextPass ==
    /\ pc \in {"done", "crashed"}
    /\ pass < MaxPasses
    /\ pass' = pass + 1
    /\ pc' = IF entry_point = "main" THEN "start" ELSE "loop"
    /\ file_idx' = 1
    /\ tags_cache' = IF entry_point = "main" THEN <<>> ELSE tags_cache
    /\ vcs_log' = IF entry_point = "main" THEN <<>> ELSE vcs_log
    /\ UNCHANGED <<config, disk, entry_idx, config_yaml, complains_all, current_file,
                   current_complains, world_tags, world_hash, reports, last>>

Next == Start \/ RunBegin \/ LintRepo \/ RunEnd \/ Exit \/ NextPass

Spec == Init /\ [][Next]_vars

(* ----------------------------------------------------------------------- *)
(* Properties                                                               *)
(* ----------------------------------------------------------------------- *)

HexDigits == AsciiDigits \cup {"a", "b", "c", "d", "e", "f", "A", "B", "C", "D", "E", "F"}

HexOnly(rev) == \A i \in 1..Len(rev) : rev[i] \in HexDigits

Types(out) == {out[i].type : i \in 1..Len(out)}

FixedTypes(out) == {out[i].type : i \in {j \in 1..Len(out) : out[j].fixed}}

Writes(fr, field) == Cardinality({i \in 1..Len(fr.writes) : fr.writes[i].field = field})

Calls(fr, fn) == Cardinality({i \in 1..Len(fr.calls) : fr.calls[i] = fn})

Diag(l, type, fixable, fixed) ==
    [file |-> l.self.file, line |-> l.line, type |-> type,
     fixable |-> fixable, fixed |-> fixed]

\* The note of an annotation, read off the text: what follows the frozen token, or the
\* text after # of an annotation without one, or all of a text the grammar does not match.
PreviousNote(comment) ==
    IF comment = None \/ comment = Some(Frozen(R_tag, <<>>)) THEN <<>>
    ELSE IF comment \in {Some(Frozen(T_v100, N_keep)), Some(<<"#">> \o N_keep \o <<"\n">>)} THEN N_keep
    ELSE IF comment = Some(<<"#", "x", "\n">>) THEN <<"#", "x", "\n">>
    ELSE IF comment = Some(<<"#", "x", "\n", "#", "y", "\n">>) THEN <<"#", "x", "\n", "#", "y", "\n">>
    ELSE comment_parse([comment |-> comment]).note

HasFrozenToken(comment) == comment_parse([comment |-> comment]).rev # None

FrozenText(rev, note) == <<"#", " ", "f", "r", "o", "z", "e", "n", ":", " ">> \o rev \o note

\* C2: a resolver call that fails during lint_repo is recovered from: no exception
\* leaves lint_repo, the complaint being fixed is reported as not fixable, and the run
\* goes on.
C2_ResolverFailureRecovered ==
    last # None =>
        LET l == last[1]
            failed == \/ Calls(l.frame, "get_tags") > 0 /\ ~l.tags.ok
                      \/ Calls(l.frame, "get_hash_for") > 0 /\ ~l.hash.ok
        IN  failed =>
                /\ ~l.frame.raised
                /\ l.frame.out # <<>>
                /\ ~l.frame.out[Len(l.frame.out)].fixable
                /\ pc # "crashed"
                /\ \A i \in 1..Len(reports) : reports[i].status # "CalledProcessError"

\* C3: an entry with an unfrozen rev S, force-freeze enabled and in the fix set and a
\* commit id C from the resolver ends with rev C, the annotation "frozen: S" and the
\* previous note, the same URL, and the one complaint unfrozen-revision-found, FIXED.
C3_FreezeFix ==
    last # None =>
        LET l == last[1]
            S == l.before.rev
        IN  (/\ ~is_short_hash_of(S) /\ ~is_full_hash_of(S)
             /\ FORCE_FREEZE \in l.self.rules /\ FORCE_FREEZE \in l.self.fix
             /\ l.hash.ok /\ l.hash.val # <<>>)
            => /\ l.frame.yaml.rev = l.hash.val
               /\ l.frame.yaml.comment = Some(FrozenText(S, PreviousNote(l.before.comment)))
               /\ l.frame.yaml.repo = l.before.repo
               /\ ~l.frame.raised
               /\ Len(l.frame.out) = 1
               /\ l.frame.out = <<Diag(l, FORCE_FREEZE, TRUE, TRUE)>>

C3_Witness ==
    /\ last # None
    /\ last[1].before.rev = R_main
    /\ last[1].before.comment = Some(Frozen(T_v100, N_keep))
    /\ last[1].frame.yaml.rev = C_commit
    /\ FixedTypes(last[1].frame.out) = {FORCE_FREEZE}

C4_Case(l) ==
    /\ HexOnly(l.before.rev)
    /\ MIN_HASH_LENGTH <= Len(l.before.rev) /\ Len(l.before.rev) * 4 < SHA1_LENGTH
    /\ l.self.rules = {NO_ABBREV, FORCE_UNFREEZE}
    /\ FORCE_UNFREEZE \in l.self.fix

\* C4 as claimed: an abbreviated hash under exactly the rules no-abbrev and
\* force-unfreeze, the latter in the fix set, gets the two complaints
\* abbreviated-hash-forbidden (not fixed) and frozen-revision-forbidden (FIXED) and its
\* rev becomes the tag select_best_tag gives.
C4_AbbreviatedUnfrozen ==
    last # None =>
        LET l == last[1]
        IN  C4_Case(l) =>
                /\ Len(l.frame.out) = 2
                /\ l.frame.out[1].type = NO_ABBREV /\ ~l.frame.out[1].fixed
                /\ l.frame.out[2].type = FORCE_UNFREEZE /\ l.frame.out[2].fixed
                /\ \E ans \in TagAnswers :
                       /\ Truthy(select_best_tag(ans.val))
                       /\ l.frame.yaml.rev = select_best_tag(ans.val)[1]

\* C4 amended: in that case the two complaints are reported, neither fixable nor
\* fixed, get_tags is not called and the entry is left as it was.
C4_AbbreviatedKept ==
    last # None =>
        LET l == last[1]
        IN  C4_Case(l) =>
                /\ Len(l.frame.out) = 2
                /\ l.frame.out = <<Diag(l, NO_ABBREV, FALSE, FALSE), Diag(l, FORCE_UNFREEZE, FALSE, FALSE)>>
                /\ l.frame.calls = <<>>
                /\ l.frame.yaml = l.before

C4_Witness ==
    /\ last # None
    /\ C4_Case(last[1])
    /\ last[1].before.rev = R_upper7
    /\ last[1].self.fix = Rule
    /\ Types(last[1].frame.out) = {NO_ABBREV, FORCE_UNFREEZE}

C5_Case(l) ==
    /\ is_short_hash_of(l.before.rev) \/ is_full_hash_of(l.before.rev)
    /\ ~HasFrozenToken(l.before.comment)

\* C5 as claimed: on an entry with a frozen rev and no frozen token in its annotation,
\* whatever the rules, the fix set and the resolver's answers, the annotation stays as
\* it was and no missing-freeze-annotation complaint is marked fixed.
C5_AnnotationNeverSynthesized ==
    last # None =>
        LET l == last[1]
        IN  C5_Case(l) =>
                /\ l.frame.yaml.comment = l.before.comment
                /\ MISSING_FROZEN_COMMENT \notin FixedTypes(l.frame.out)

\* The case in which lint_repo fixes a missing-freeze-annotation complaint: the rule is
\* enabled and in the fix set, the rev has the length of a full hash and is not
\* rewritten by the force-unfreeze fix, and select_best_tag gives a tag.
C5_Synthesizes(l) ==
    /\ MISSING_FROZEN_COMMENT \in l.self.rules
    /\ MISSING_FROZEN_COMMENT \in l.self.fix
    /\ Len(l.before.rev) * 4 = SHA1_LENGTH
    /\ ~(FORCE_UNFREEZE \in l.self.rules /\ FORCE_UNFREEZE \in l.self.fix)
    /\ l.tags.ok
    /\ Truthy(select_best_tag(l.tags.val))

\* C5 amended: on such an entry, when the rule is enabled and in the fix set and the rev
\* has the length of a full hash, get_tags is asked; the missing-freeze-annotation
\* complaint is marked fixed exactly in the case C5_Synthesizes, and then the annotation
\* becomes "frozen: T" and the previous note, T being the best tag, with the rev kept;
\* in every other case the annotation stays as it was, unless force-freeze and
\* force-unfreeze are both enabled.
C5_AnnotationSynthesizedWhenFixing ==
    last # None =>
        LET l == last[1]
        IN  C5_Case(l) =>
                /\ (/\ MISSING_FROZEN_COMMENT \in l.self.rules
                    /\ MISSING_FROZEN_COMMENT \in l.self.fix
                    /\ Len(l.before.rev) * 4 = SHA1_LENGTH) => Calls(l.frame, "get_tags") >= 1
                /\ (MISSING_FROZEN_COMMENT \in FixedTypes(l.frame.out)) <=> C5_Synthesizes(l)
                /\ C5_Synthesizes(l) =>
                       /\ l.frame.yaml.comment =
                              Some(FrozenText(select_best_tag(l.tags.val)[1], PreviousNote(l.before.comment)))
                       /\ l.frame.yaml.rev = l.before.rev
                /\ (~C5_Synthesizes(l) /\ exclusive_rules_ok(l.self.rules)) =>
                       l.frame.yaml.comment = l.before.comment

C5_Witness ==
    /\ last # None
    /\ C5_Case(last[1])
    /\ last[1].before.rev = R_full
    /\ last[1].before.comment = Some(<<"#">> \o N_keep \o <<"\n">>)
    /\ last[1].frame.yaml.comment = Some(FrozenText(T_v100, N_keep))
    /\ MISSING_FROZEN_COMMENT \in FixedTypes(last[1].frame.out)

\* C6: a rev that is empty or has a character that is no hexadecimal digit is neither an
\* abbreviated nor a full hash, and lint_repo takes it through the unfrozen branch: it
\* complains unfrozen-revision-found when that rule is enabled, and never
\* frozen-revision-forbidden, missing-freeze-annotation or annotation-tag-mismatch.
C6_NonHexIsUnfrozen ==
    last # None =>
        LET l == last[1]
        IN  (l.before.rev = <<>> \/ ~HexOnly(l.before.rev)) =>
                /\ ~is_short_hash_of(l.before.rev)
                /\ ~is_full_hash_of(l.before.rev)
                /\ Types(l.frame.out) \cap {FORCE_UNFREEZE, MISSING_FROZEN_COMMENT, CHECK_COMMENTED_TAG} = {}
                /\ FORCE_FREEZE \in l.self.rules => FORCE_FREEZE \in Types(l.frame.out)

NoRepeat(log) == \A i, j \in 1..Len(log) : log[i] = log[j] => i = j

\* C7 as claimed: in one process, get_tags and get_hash_for each query git at most once
\* for a pair of repository URL and specifier.
C7_EachPairQueriedOnce == NoRepeat(vcs_log)

\* C7 amended: in one process get_tags queries git at most once for a pair it answered
\* and still holds in its cache, which keeps the 128 most recently used pairs;
\* get_hash_for has no cache, and its queries may repeat.
C7_TagsQueriedOnceWhileCached ==
    /\ NoRepeat(SelectSeq(vcs_log, LAMBDA q : q.fn = "get_tags"))
    /\ Len(tags_cache) <= LRU_MAXSIZE
    /\ \A i \in 1..Len(tags_cache) :
           /\ tags_cache[i].val.ok
           /\ [fn |-> "get_tags", key |-> tags_cache[i].key] \in {vcs_log[j] : j \in 1..Len(vcs_log)}

\* get_tags was called twice for the pair of the latest entry, and queried once.
C7_Witness ==
    /\ last # None
    /\ Calls(last[1].frame, "get_tags") = 2
    /\ Cached(tags_cache, Key(last[1].before))
    /\ Len(SelectSeq(vcs_log, LAMBDA q : q = [fn |-> "get_tags", key |-> Key(last[1].before)])) = 1

PassOver == pc \in {"done", "crashed"}

Reported(p, f, status) ==
    \E i \in 1..Len(reports) :
        reports[i].pass = p /\ reports[i].file = f /\ reports[i].status = status

\* C8: when a file of an invocation does not load, every other file is still linted and
\* reported, the ones after it too, and the file itself is not written.
C8_MalformedFileIsolated ==
    (PassOver /\ \A i \in 1..Len(reports) : reports[i].status # "CalledProcessError") =>
        \A f \in 1..Len(disk) :
            IF disk[f].ok THEN Reported(pass, f, "ok")
            ELSE \A i \in 1..Len(reports) : reports[i].file = f => ~reports[i].written

\* C9 as claimed: in one call of lint_repo, under any rules and fix set a Linter can be
\* built with, the URL is not written, the rev is written at most once and the
\* annotation is written or removed at most once.
C9_WriteOnce ==
    last # None =>
        LET l == last[1]
        IN  /\ l.frame.yaml.repo = l.before.repo
            /\ Writes(l.frame, "rev") <= 1
            /\ Writes(l.frame, "comment") <= 1

\* C9 amended: the URL is not written and the annotation is written or removed at most
\* once; the rev is written at most once unless force-freeze and force-unfreeze are both
\* enabled, and then at most twice.
C9_WriteOnceUnlessExclusiveRules ==
    last # None =>
        LET l == last[1]
        IN  /\ l.frame.yaml.repo = l.before.repo
            /\ Writes(l.frame, "comment") <= 1
            /\ Writes(l.frame, "rev") <= 2
            /\ exclusive_rules_ok(l.self.rules) => Writes(l.frame, "rev") <= 1
            /\ Writes(l.frame, "rev") = 0 => l.frame.yaml.rev = l.before.rev
            /\ Writes(l.frame, "comment") = 0 => l.frame.yaml.comment = l.before.comment

C9_Witness ==
    /\ last # None
    /\ exclusive_rules_ok(last[1].self.rules)
    /\ Writes(last[1].frame, "rev") = 1
    /\ Writes(last[1].frame, "comment") = 1
    /\ last[1].frame.yaml.rev # last[1].before.rev

Authorized(d) == d.fixed => d.fixable /\ d.type \in rules /\ d.type \in fix

AllAuthorized(out) == \A i \in 1..Len(out) : Authorized(out[i])

\* C10: every complaint marked fixed is fixable, of an enabled rule whose code is in
\* the fix set, and in the list the run reports; a rev or an annotation is written only
\* by a fix that marks a reported complaint of its rule fixed; and when no enabled rule
\* is in the fix set no entry is modified.
C10_FixAuthorized ==
    /\ AllAuthorized(current_complains)
    /\ AllAuthorized(complains_all)
    /\ \A i \in 1..Len(reports) : AllAuthorized(reports[i].complains)
    /\ last # None =>
           LET l == last[1]
           IN  /\ AllAuthorized(l.frame.out)
               /\ \A i \in 1..Len(l.frame.writes) : l.frame.writes[i].rule \in FixedTypes(l.frame.out)
               /\ l.frame.yaml # l.before => FixedTypes(l.frame.out) # {}
               /\ \A i \in 1..Len(l.frame.out) :
                      \E j \in 1..Len(current_complains) : current_complains[j] = l.frame.out[i]
    /\ rules \cap fix = {} => \A i \in 1..Len(reports) : reports[i].output = reports[i].input

C10_Witness ==
    /\ \E i \in 1..Len(reports) :
           /\ FixedTypes(reports[i].complains) # {}
           /\ reports[i].output # reports[i].input
    /\ rules # fix

\* The second of two successive runs over a file, fed the text the first returned,
\* under a rule set main accepts and with every rule code in the fix set.
C1_Case(first, second) ==
    /\ fix = Rule
    /\ exclusive_rules_ok(rules)
    /\ first.file = second.file
    /\ first.pass + 1 = second.pass
    /\ first.status = "ok" /\ second.status = "ok"
    /\ second.input = first.output

PlainToken(s) == s # <<>> /\ \A i \in 1..Len(s) : s[i] \notin Whitespace

Unfrozen(rev) == ~is_short_hash_of(rev) /\ ~is_full_hash_of(rev)

SingleLine(comment) ==
    comment = None \/ ~\E i \in 1..Len(Strip(comment[1])) : Strip(comment[1])[i] = "\n"

\* The remote answers with commit ids of 40 hexadecimal digits and with tag names that
\* are plain tokens and not taken for hashes.
C1_PlainRemote ==
    /\ \A k \in DOMAIN world_hash :
           world_hash[k].ok /\ world_hash[k].val # <<>> =>
               HexOnly(world_hash[k].val) /\ Len(world_hash[k].val) * 4 = SHA1_LENGTH
    /\ \A k \in DOMAIN world_tags :
           \A i \in 1..Len(world_tags[k].val) :
               PlainToken(world_tags[k].val[i]) /\ Unfrozen(world_tags[k].val[i])

\* Every rev of the document is a plain token and every annotation has one line.
C1_PlainDocument(content) ==
    \A i \in 1..Len(content.repos) :
        PlainToken(content.repos[i].rev) /\ SingleLine(content.repos[i].comment)

AllFixed(out) == \A i \in 1..Len(out) : out[i].fixed

====
